---- MODULE Spec2Model ----
(***************************************************************************)
(* The section tree of backend/routes/sections.py: the sections collection *)
(* of the document store, and the create / update / delete handlers that   *)
(* maintain slug, parent_id, full_path, parent_path and level.             *)
(*                                                                         *)
(* Spec runs the writing handlers one call at a time.  SpecTree, SpecList  *)
(* and SpecGet apply the read-only handlers (tree, list, get) to drawn     *)
(* stores.  SpecConc interleaves create, update, get and delete requests  *)
(* at the granularity of their store operations; SpecAlone runs one such   *)
(* request alone, SpecCycle runs it on stores with malformed parent links  *)
(* and SpecWalk on the stores interleaved requests leave, the last two     *)
(* with the request always taking its next step.                           *)
(*                                                                         *)
(* Strings are TLA+ strings; a path is built by concatenation exactly as   *)
(* the f-strings of the handlers build it.  Python's None is NoneId for an *)
(* Optional[str] id and NoneStr for any other Optional[str].               *)
(***************************************************************************)
EXTENDS Integers, Sequences, FiniteSets, TLC

\* Number of sections ever created (ids are uuid4: fresh, never reused).
MaxSections == 3

\* Python None in an id-typed field (parent_id).
NoneId == 0
\* An id that no section ever has (a parent_id / id naming no record).
GhostId == MaxSections + 1
\* Python None in parent_path, and an absent slug in an update payload.
NoneStr == "None"

\* Slugs the callers send; SectionCreate.slug is any str, "" included.
Slugs == {"", "a", "b"}

Ids == 1..MaxSections

\* Stale documents let level and full_path grow without limit (a section moved
\* under a parent whose stored level is too high); calls are explored while
\* every stored level and path length stays within these.
MaxLevel == MaxSections
MaxPathLen == 2 * MaxSections

VARIABLES
    sections,   \* db.sections: a function from the stored _id's to documents
    nextId,     \* the next fresh _id (stands for uuid4())
    last,       \* the call being answered: its arguments, its outcome and the
                \* store before it; op = "none" when no call is outstanding
    procs       \* the calls in progress when handlers interleave: for each
                \* request its position in the handler and its local variables

vars == <<sections, nextId, last, procs>>

\* `if parent_id` / `if not parent_id` on an Optional[str] holding None or an id.
Truthy(p) == p # NoneId

\* db.sections.find({"parent_id": section_id}): the ids of the matching documents.
ChildrenOf(st, section_id) == {c \in DOMAIN st : st[c].parent_id = section_id}

\* The sections collection without its unique index.
DuplicateKey_NoIndex(st, id, full_path) == FALSE

\* The unique index on full_path: a write that gives document id the path
\* full_path is refused when another document already has it.
DuplicateKey(st, id, full_path) ==
    \E j \in DOMAIN st : j # id /\ st[j].full_path = full_path

\* section_id and everything below it (following parent_id downwards).
RECURSIVE Subtree(_, _)
Subtree(st, section_id) ==
    {section_id} \cup UNION {Subtree(st, c) : c \in ChildrenOf(st, section_id)}

\* The walk up the parent_id links from current_id ends (at None or at a
\* missing record) without visiting a section twice.
RECURSIVE ChainEnds(_, _, _)
ChainEnds(st, current_id, visited) ==
    IF ~Truthy(current_id) \/ current_id \notin DOMAIN st THEN TRUE
    ELSE IF current_id \in visited THEN FALSE
    ELSE ChainEnds(st, st[current_id].parent_id, visited \cup {current_id})

\* The orders in which a find() without sort may return documents: any.  Only
\* the relative order of siblings is ever observed, so one order stands for
\* all when no section below section_id has two children.
Orders(st, section_id) ==
    IF \E s \in Subtree(st, section_id) : Cardinality(ChildrenOf(st, s)) > 1
    THEN {o \in [1..MaxSections -> Ids] : \A i, j \in 1..MaxSections : o[i] = o[j] => i = j}
    ELSE {[i \in 1..MaxSections |-> i]}

\* The members of set S as a sequence, in the order ord lists them.
RECURSIVE InOrder(_, _, _)
InOrder(S, ord, i) ==
    IF i > Len(ord) THEN <<>>
    ELSE (IF ord[i] \in S THEN <<ord[i]>> ELSE <<>>) \o InOrder(S, ord, i + 1)

\* build_full_path taking a parent_id that names no record for a root instead
\* of raising the 404.
build_full_path_MissingParentAsRoot(parent_id, slug, st) ==
    IF ~Truthy(parent_id) \/ parent_id \notin DOMAIN st
    THEN [ok |-> TRUE, full_path |-> "/" \o slug, level |-> 0]
    ELSE [ok |-> TRUE,
          full_path |-> st[parent_id].full_path \o "/" \o slug,
          level |-> st[parent_id].level + 1]

\* build_full_path returning the parent's level instead of parent_level + 1.
build_full_path_ParentLevel(parent_id, slug, st) ==
    IF ~Truthy(parent_id)
    THEN [ok |-> TRUE, full_path |-> "/" \o slug, level |-> 0]
    ELSE IF parent_id \notin DOMAIN st
    THEN [ok |-> FALSE, full_path |-> NoneStr, level |-> 0]
    ELSE [ok |-> TRUE,
          full_path |-> st[parent_id].full_path \o "/" \o slug,
          level |-> st[parent_id].level]

\* build_full_path: (full_path, level), or the 404 for a missing parent.
build_full_path(parent_id, slug, st) ==
    IF ~Truthy(parent_id)
    THEN [ok |-> TRUE, full_path |-> "/" \o slug, level |-> 0]
    ELSE IF parent_id \notin DOMAIN st
    THEN [ok |-> FALSE, full_path |-> NoneStr, level |-> 0]
    ELSE [ok |-> TRUE,
          full_path |-> st[parent_id].full_path \o "/" \o slug,
          level |-> st[parent_id].level + 1]

\* update_children_paths: rewrites full_path and parent_path of every child,
\* each child before its own children; a write the unique index refuses
\* raises, and the writes made so far stay.  Result: the store and whether
\* the call returned normally.
RECURSIVE update_children_paths(_, _, _, _), UpdateChildrenLoop(_, _, _, _)
update_children_paths(st, section_id, new_path, ord) ==
    UpdateChildrenLoop(st, InOrder(ChildrenOf(st, section_id), ord, 1), new_path, ord)

UpdateChildrenLoop(st, children, new_path, ord) ==
    IF children = <<>> THEN [st |-> st, ok |-> TRUE]
    ELSE LET child == Head(children)
             child_full_path == new_path \o "/" \o st[child].slug
         IN  IF DuplicateKey(st, child, child_full_path)
             THEN [st |-> st, ok |-> FALSE]
             ELSE LET st1 == [st EXCEPT ![child].full_path = child_full_path,
                                        ![child].parent_path = new_path]
                      r == update_children_paths(st1, child, child_full_path, ord)
                  IN  IF ~r.ok THEN r
                      ELSE UpdateChildrenLoop(r.st, Tail(children), new_path, ord)

\* The while loop without its `current_id == section_id` test.
RECURSIVE CircularWalk_NoTargetTest(_, _, _, _)
CircularWalk_NoTargetTest(section_id, current_id, visited, st) ==
    IF ~Truthy(current_id) THEN FALSE
    ELSE IF current_id \in visited THEN TRUE
    ELSE IF current_id \notin DOMAIN st THEN FALSE
    ELSE CircularWalk_NoTargetTest(section_id, st[current_id].parent_id,
                                   visited \cup {current_id}, st)

\* The while loop of check_circular_reference.
RECURSIVE CircularWalk(_, _, _, _)
CircularWalk(section_id, current_id, visited, st) ==
    IF ~Truthy(current_id) THEN FALSE
    ELSE IF current_id \in visited THEN TRUE
    ELSE IF current_id = section_id THEN TRUE
    ELSE IF current_id \notin DOMAIN st THEN FALSE
    ELSE CircularWalk(section_id, st[current_id].parent_id, visited \cup {current_id}, st)

\* check_circular_reference without the walk up the parent chain.
check_circular_reference_SelfOnly(section_id, new_parent_id, st) ==
    Truthy(new_parent_id) /\ section_id = new_parent_id

\* check_circular_reference: TRUE when new_parent_id is section_id or has it
\* among its ancestors.
check_circular_reference(section_id, new_parent_id, st) ==
    IF ~Truthy(new_parent_id) THEN FALSE
    ELSE IF section_id = new_parent_id THEN TRUE
    ELSE CircularWalk(section_id, new_parent_id, {}, st)

Call(op, id, slug, parent_id, cascade, result, ret) ==
    [op |-> op, id |-> id, slug |-> slug, parent_id |-> parent_id,
     cascade |-> cascade, result |-> result, ret |-> ret, before |-> sections]

NoCall ==
    [op |-> "none", id |-> NoneId, slug |-> NoneStr, parent_id |-> NoneId,
     cascade |-> FALSE, result |-> "ok", ret |-> NoneStr, before |-> [i \in {} |-> 0]]

\* No request is in progress.
NoProcs == <<>>

Init ==
    /\ sections = [i \in {} |-> 0]
    /\ nextId = 1
    /\ last = NoCall
    /\ procs = NoProcs

\* No call is outstanding: calls run one at a time, each to completion.
Idle == last.op = "none"

\* The exploration bound on stale levels and paths.
Bounded ==
    \A j \in DOMAIN sections' :
        sections'[j].level <= MaxLevel /\ Len(sections'[j].full_path) <= MaxPathLen

\* The parent_id values a caller sends: None, the id of a section that is or
\* was stored, an id no section has.
ParentInputs == {NoneId, GhostId} \cup (1..(nextId - 1))

\* The document create_section inserts; the payload leaves order, in_main_menu
\* and status at their defaults.
NewSection(slug, parent_id, st) ==
    LET p == build_full_path(parent_id, slug, st)
    IN  [slug |-> slug,
         full_path |-> p.full_path,
         parent_id |-> parent_id,
         parent_path |-> IF Truthy(parent_id) /\ parent_id \in DOMAIN st
                         THEN st[parent_id].full_path ELSE NoneStr,
         level |-> p.level,
         order |-> 0,
         in_main_menu |-> FALSE,
         status |-> "draft",
         views |-> 0]

\* The uniqueness query of create_section.
SlugExists(slug, parent_id, st) ==
    \E j \in DOMAIN st :
        /\ st[j].slug = slug
        /\ st[j].parent_id = (IF Truthy(parent_id) THEN parent_id ELSE NoneId)

\* POST /sections/
create_section(slug, parent_id) ==
    LET id == nextId
        doc == NewSection(slug, parent_id, sections)
    IN  IF SlugExists(slug, parent_id, sections)
        THEN /\ last' = Call("create", NoneId, slug, parent_id, FALSE, "Conflict", NoneStr)
             /\ UNCHANGED <<sections, nextId>>
        ELSE IF ~build_full_path(parent_id, slug, sections).ok
        THEN /\ last' = Call("create", NoneId, slug, parent_id, FALSE, "NotFound", NoneStr)
             /\ UNCHANGED <<sections, nextId>>
        ELSE IF DuplicateKey(sections, id, doc.full_path)
        THEN /\ last' = Call("create", NoneId, slug, parent_id, FALSE, "DuplicateKey", NoneStr)
             /\ UNCHANGED <<sections, nextId>>
        ELSE /\ nextId <= MaxSections
             /\ sections' = [j \in DOMAIN sections \cup {id} |->
                                IF j = id THEN doc ELSE sections[j]]
             /\ nextId' = nextId + 1
             /\ last' = Call("create", id, slug, parent_id, FALSE, "ok", doc.full_path)

Create ==
    /\ Idle
    /\ \E slug \in Slugs, parent_id \in ParentInputs : create_section(slug, parent_id)
    /\ Bounded
    /\ UNCHANGED procs

\* The $set keeping a parent_id of None in update_data: the section becomes a
\* root entry while its path stays the one computed from its old parent.
UpdatedSection_NullParentApplied(doc, slug, parent_id, p, st) ==
    LET d1 == [doc EXCEPT !.full_path = p.full_path, !.level = p.level,
                          !.parent_id = parent_id]
    IN  IF slug # NoneStr THEN [d1 EXCEPT !.slug = slug] ELSE d1

\* The $set of update_section on the section itself, once the children are done.
\* update_data holds slug only when the payload has it, parent_id and
\* parent_path only when the payload has parent_id.
UpdatedSection(doc, slug, parent_id, p, st) ==
    LET d1 == [doc EXCEPT !.full_path = p.full_path, !.level = p.level]
        d2 == IF slug # NoneStr THEN [d1 EXCEPT !.slug = slug] ELSE d1
    IN  IF parent_id # NoneId
        THEN [d2 EXCEPT !.parent_id = parent_id,
                        !.parent_path = IF Truthy(parent_id) /\ parent_id \in DOMAIN st
                                        THEN st[parent_id].full_path ELSE NoneStr]
        ELSE d2

\* PUT /sections/{id} with a payload of slug and parent_id (None: not sent);
\* the other payload fields touch none of the modelled fields.
update_section(id, slug, parent_id, ord) ==
    IF id \notin DOMAIN sections
    THEN /\ last' = Call("update", id, slug, parent_id, FALSE, "NotFound", NoneStr)
         /\ UNCHANGED <<sections, nextId>>
    ELSE IF parent_id = NoneId /\ slug = NoneStr
    THEN /\ last' = Call("update", id, slug, parent_id, FALSE, "ok", NoneStr)
         /\ UNCHANGED <<sections, nextId>>
    ELSE IF parent_id # NoneId /\ check_circular_reference(id, parent_id, sections)
    THEN /\ last' = Call("update", id, slug, parent_id, FALSE, "InvalidOperation", NoneStr)
         /\ UNCHANGED <<sections, nextId>>
    ELSE LET new_slug == IF slug # NoneStr THEN slug ELSE sections[id].slug
             new_parent_id == IF parent_id # NoneId THEN parent_id ELSE sections[id].parent_id
             p == build_full_path(new_parent_id, new_slug, sections)
         IN  IF ~p.ok
             THEN /\ last' = Call("update", id, slug, parent_id, FALSE, "NotFound", NoneStr)
                  /\ UNCHANGED <<sections, nextId>>
             ELSE LET r == update_children_paths(sections, id, p.full_path, ord)
                  IN  IF ~r.ok \/ DuplicateKey(r.st, id, p.full_path)
                      THEN /\ sections' = r.st
                           /\ last' = Call("update", id, slug, parent_id, FALSE,
                                           "DuplicateKey", NoneStr)
                           /\ UNCHANGED nextId
                      ELSE /\ sections' = [r.st EXCEPT ![id] =
                                  UpdatedSection(r.st[id], slug, parent_id, p, sections)]
                           /\ last' = Call("update", id, slug, parent_id, FALSE, "ok", NoneStr)
                           /\ UNCHANGED nextId

\* The ids a caller may name: one a create returned, or an unknown one.
IdInputs == {GhostId} \cup (1..(nextId - 1))

Update ==
    /\ Idle
    /\ \E id \in IdInputs, slug \in Slugs \cup {NoneStr}, parent_id \in ParentInputs :
          \E ord \in Orders(sections, id) : update_section(id, slug, parent_id, ord)
    /\ Bounded
    /\ UNCHANGED procs

RECURSIVE DeleteSection(_, _, _, _), DeleteChildrenLoop(_, _, _)

\* delete_section with cascade removing the section and leaving its children.
DeleteSection_CascadeKeepsChildren(st, id, cascade, ord) ==
    IF id \notin DOMAIN st THEN [st |-> st, result |-> "NotFound"]
    ELSE IF ChildrenOf(st, id) # {} /\ ~cascade
    THEN [st |-> st, result |-> "InvalidOperation"]
    ELSE [st |-> [j \in DOMAIN st \ {id} |-> st[j]], result |-> "ok"]

\* delete_section without the `children_count > 0 and not cascade` refusal.
DeleteSection_NoChildCheck(st, id, cascade, ord) ==
    IF id \notin DOMAIN st THEN [st |-> st, result |-> "NotFound"]
    ELSE LET r == IF cascade /\ ChildrenOf(st, id) # {}
                  THEN DeleteChildrenLoop(st, InOrder(ChildrenOf(st, id), ord, 1), ord)
                  ELSE [st |-> st, result |-> "ok"]
         IN  IF r.result # "ok" THEN r
             ELSE [st |-> [j \in DOMAIN r.st \ {id} |-> r.st[j]], result |-> "ok"]

\* The cascade loop removing each child with delete_one instead of recursing.
DeleteChildrenLoop_NoRecursion(st, children, ord) ==
    [st |-> [j \in DOMAIN st \ {children[i] : i \in 1..Len(children)} |-> st[j]],
     result |-> "ok"]

\* delete_section, the recursion of the cascade included.  Result: the store
\* and the outcome of the call (an exception of a nested call ends the call).
DeleteSection(st, id, cascade, ord) ==
    IF id \notin DOMAIN st THEN [st |-> st, result |-> "NotFound"]
    ELSE LET children_count == Cardinality(ChildrenOf(st, id))
         IN  IF children_count > 0 /\ ~cascade
             THEN [st |-> st, result |-> "InvalidOperation"]
             ELSE LET r == IF cascade /\ children_count > 0
                           THEN DeleteChildrenLoop(st, InOrder(ChildrenOf(st, id), ord, 1), ord)
                           ELSE [st |-> st, result |-> "ok"]
                  IN  IF r.result # "ok" THEN r
                      ELSE [st |-> [j \in DOMAIN r.st \ {id} |-> r.st[j]], result |-> "ok"]

\* `for child in children: await delete_section(child["_id"], request, cascade=True)`
DeleteChildrenLoop(st, children, ord) ==
    IF children = <<>> THEN [st |-> st, result |-> "ok"]
    ELSE LET r == DeleteSection(st, Head(children), TRUE, ord)
         IN  IF r.result # "ok" THEN r
             ELSE DeleteChildrenLoop(r.st, Tail(children), ord)

\* DELETE /sections/{id}?cascade=
delete_section(id, cascade, ord) ==
    LET r == DeleteSection(sections, id, cascade, ord)
    IN  /\ sections' = r.st
        /\ last' = Call("delete", id, NoneStr, NoneId, cascade, r.result, NoneStr)
        /\ UNCHANGED nextId

Delete ==
    /\ Idle
    /\ \E id \in IdInputs, cascade \in BOOLEAN :
          \E ord \in Orders(sections, id) : delete_section(id, cascade, ord)
    /\ UNCHANGED procs

\* The response reaches the caller; the next call may start.
Respond ==
    /\ last.op # "none"
    /\ last' = NoCall
    /\ UNCHANGED <<sections, nextId, procs>>

Next == Create \/ Update \/ Delete \/ Respond

Spec == Init /\ [][Next]_vars

(***************************************************************************)
(* The read-only handlers.  Each is a function of the store and of the     *)
(* order in which the store returns the documents; it is applied to the    *)
(* stores drawn below: consistent trees, in which a parent_id may name a   *)
(* record that is gone (GhostId).                                          *)
(***************************************************************************)

\* Largest `order` value of a drawn document.
MaxOrder == 1

\* ContentStatus values of the drawn documents.
Statuses == {"draft", "published"}

\* The slug of the drawn document i: siblings never share one.
SlugOfId(i) == IF i = 1 THEN "a" ELSE IF i = 2 THEN "b" ELSE "c"

\* The _id of section i as the string a caller sends; the id of a record that
\* is gone is "g".  The strings stand for uuid4 values.
IdStr(i) == IF i = 1 THEN "a" ELSE IF i = 2 THEN "b" ELSE IF i = 3 THEN "c" ELSE "g"

\* The parent_id of each drawn document: None, a record that is gone, or
\* another document, without cycles.
ParentMaps ==
    {pm \in [Ids -> {NoneId, GhostId} \cup Ids] :
        \A i \in Ids : ChainEnds([j \in Ids |-> [parent_id |-> pm[j]]], i, {})}

\* full_path and level as build_full_path derives them down the chain pm; a
\* record that is gone was the root "/x".
RECURSIVE PathIn(_, _, _), LevelIn(_, _)
PathIn(pm, sm, i) ==
    IF pm[i] = NoneId THEN "/" \o sm[i]
    ELSE IF pm[i] \notin Ids THEN "/x/" \o sm[i]
    ELSE PathIn(pm, sm, pm[i]) \o "/" \o sm[i]

LevelIn(pm, i) ==
    IF pm[i] = NoneId THEN 0
    ELSE IF pm[i] \notin Ids THEN 1
    ELSE LevelIn(pm, pm[i]) + 1

\* The store holding the documents Ids with parents pm, slugs sm, statuses
\* stat, orders ordr, in_main_menu flags menu and view counts vw.
StoreOf(pm, sm, stat, ordr, menu, vw) ==
    [i \in Ids |->
        [slug |-> sm[i],
         full_path |-> PathIn(pm, sm, i),
         parent_id |-> pm[i],
         parent_path |-> IF pm[i] = NoneId THEN NoneStr
                         ELSE IF pm[i] \notin Ids THEN "/x"
                         ELSE PathIn(pm, sm, pm[i]),
         level |-> LevelIn(pm, i),
         order |-> ordr[i],
         in_main_menu |-> menu[i],
         status |-> stat[i],
         views |-> vw[i]]]

\* All orders in which a cursor may return documents that its sort leaves tied.
AllOrders == {o \in [1..MaxSections -> Ids] : \A i, j \in 1..MaxSections : o[i] = o[j] => i = j}

\* cursor.sort("order", 1) over the documents docs (a sequence of ids): by
\* order ascending, documents of equal order in the order the store has them.
RECURSIVE SortByOrder(_, _, _)
SortByOrder(st, docs, k) ==
    IF k > MaxOrder THEN <<>>
    ELSE SelectSeq(docs, LAMBDA i : st[i].order = k) \o SortByOrder(st, docs, k + 1)

\* db.sections.find(query).sort("order", 1).to_list(1000) of get_sections_tree.
TreeLoaded(st, status, ord) ==
    SortByOrder(st,
                InOrder({i \in DOMAIN st : status = NoneStr \/ st[i].status = status}, ord, 1),
                0)

\* The first pass also taking for a root a section whose parent is not loaded.
TreeFirstPass_OrphansAsRoots(st, all_sections) ==
    LET ids == {all_sections[k] : k \in 1..Len(all_sections)}
    IN  [sections_map |-> ids,
         root_sections |-> SelectSeq(all_sections,
                               LAMBDA c : ~Truthy(st[c].parent_id) \/ st[c].parent_id \notin ids)]

\* The first pass: sections_map (its keys) and root_sections.
RECURSIVE TreeFirstPass(_, _)
TreeFirstPass(st, all_sections) ==
    IF all_sections = <<>> THEN [sections_map |-> {}, root_sections |-> <<>>]
    ELSE LET section == Head(all_sections)
             r == TreeFirstPass(st, Tail(all_sections))
         IN  [sections_map |-> {section} \cup r.sections_map,
              root_sections |-> (IF ~Truthy(st[section].parent_id)
                                 THEN <<section>> ELSE <<>>) \o r.root_sections]

\* The hierarchy built in the same pass as the map: a child is attached only
\* when its parent came earlier in all_sections.
TreeSecondPass_ParentsFirst(st, all_sections, sections_map) ==
    LET Pos(x) == CHOOSE k \in 1..Len(all_sections) : all_sections[k] = x
    IN  [parent_id \in sections_map |->
            SelectSeq(all_sections,
                      LAMBDA c : /\ Truthy(st[c].parent_id)
                                 /\ st[c].parent_id = parent_id
                                 /\ Pos(parent_id) < Pos(c))]

\* The second pass: the children list of every entry of sections_map.
TreeSecondPass(st, all_sections, sections_map) ==
    [parent_id \in sections_map |->
        SelectSeq(all_sections,
                  LAMBDA c : Truthy(st[c].parent_id) /\ st[c].parent_id = parent_id)]

\* The SectionTree object of section id with its nested children.
RECURSIVE SectionTreeOf(_, _)
SectionTreeOf(id, children) ==
    [id |-> id,
     children |-> [k \in 1..Len(children[id]) |-> SectionTreeOf(children[id][k], children)]]

\* GET /sections/tree?status=: the forest returned, and the children lists of
\* sections_map it is made of.
get_sections_tree(st, status, ord) ==
    LET all_sections == TreeLoaded(st, status, ord)
        first == TreeFirstPass(st, all_sections)
        children == TreeSecondPass(st, all_sections, first.sections_map)
    IN  [loaded |-> all_sections,
         children |-> children,
         ret |-> [k \in 1..Len(first.root_sections) |->
                     SectionTreeOf(first.root_sections[k], children)]]

TreeInit ==
    /\ \E pm \in ParentMaps, stat \in [Ids -> Statuses], ordr \in [Ids -> 0..MaxOrder] :
          sections = StoreOf(pm, [i \in Ids |-> SlugOfId(i)], stat, ordr,
                             [i \in Ids |-> FALSE], [i \in Ids |-> 0])
    /\ nextId = MaxSections + 1
    /\ last = NoCall
    /\ procs = NoProcs

Tree ==
    /\ Idle
    /\ \E status \in Statuses \cup {NoneStr}, ord \in AllOrders :
          LET t == get_sections_tree(sections, status, ord)
          IN  last' = [op |-> "tree", status |-> status, loaded |-> t.loaded,
                       children |-> t.children, result |-> "ok", ret |-> t.ret]
    /\ UNCHANGED <<sections, nextId, procs>>

TreeNext == Tree \/ Respond

SpecTree == TreeInit /\ [][TreeNext]_vars

\* Largest skip and largest limit of a list call (skip >= 0, limit >= 1).
MaxSkip == 2
MaxLimit == 2

\* An Optional[int] or Optional[bool] query parameter: <<>> for None, <<v>> for v.
Optional(S) == {<<>>} \cup {<<v>> : v \in S}

\* The query of list_sections: the ids of the documents it matches.
ListQuery(st, parent_id, level, status, in_main_menu) ==
    {i \in DOMAIN st :
        /\ parent_id # NoneStr =>
              IF parent_id = "null" \/ parent_id = ""
              THEN st[i].parent_id = NoneId
              ELSE Truthy(st[i].parent_id) /\ IdStr(st[i].parent_id) = parent_id
        /\ level # <<>> => st[i].level = level[1]
        /\ status # NoneStr => st[i].status = status
        /\ in_main_menu # <<>> => st[i].in_main_menu = in_main_menu[1]}

\* The page cut from the matches in store order, sorted afterwards.
ListItems_PageThenSort(st, matched, skip, limit) ==
    SortByOrder(st, SubSeq(matched, skip + 1,
                           IF Len(matched) < skip + limit THEN Len(matched) ELSE skip + limit), 0)

\* find(query).skip(skip).limit(limit).sort("order", 1) and to_list(limit): the
\* cursor sorts first, whatever the order of the calls that configure it.
ListItems(st, matched, skip, limit) ==
    LET sorted == SortByOrder(st, matched, 0)
    IN  SubSeq(sorted, skip + 1,
               IF Len(sorted) < skip + limit THEN Len(sorted) ELSE skip + limit)

\* GET /sections/ without search.
list_sections(st, skip, limit, parent_id, level, status, in_main_menu, ord) ==
    LET query == ListQuery(st, parent_id, level, status, in_main_menu)
    IN  [total |-> Cardinality(query),
         items |-> ListItems(st, InOrder(query, ord, 1), skip, limit)]

\* The stores a list call is applied to: trees whose parents are all stored;
\* sections 2 and 3 take every order, section 2 every status and section 3
\* every in_main_menu flag.
ListInit ==
    /\ \E pm \in ParentMaps, stat \in [Ids -> Statuses],
          ordr \in [Ids -> 0..MaxOrder], menu \in [Ids -> BOOLEAN] :
          /\ \A i \in Ids : pm[i] # GhostId
          /\ stat[1] = "published" /\ stat[3] = "published"
          /\ ~menu[1] /\ ~menu[2]
          /\ ordr[1] = MaxOrder
          /\ sections = StoreOf(pm, [i \in Ids |-> SlugOfId(i)], stat, ordr, menu,
                                [i \in Ids |-> 0])
    /\ nextId = MaxSections + 1
    /\ last = NoCall
    /\ procs = NoProcs

List ==
    /\ Idle
    /\ \E skip \in 0..MaxSkip, limit \in 1..MaxLimit,
          parent_id \in {NoneStr, "null", "", IdStr(1), IdStr(GhostId)},
          level \in Optional(0..1), status \in Statuses \cup {NoneStr},
          in_main_menu \in Optional(BOOLEAN), ord \in AllOrders :
          LET r == list_sections(sections, skip, limit, parent_id, level, status,
                                 in_main_menu, ord)
          IN  last' = [op |-> "list", skip |-> skip, limit |-> limit,
                       parent_id |-> parent_id, level |-> level, status |-> status,
                       in_main_menu |-> in_main_menu, result |-> "ok",
                       items |-> r.items, total |-> r.total]
    /\ UNCHANGED <<sections, nextId, procs>>

ListNext == List \/ Respond

SpecList == ListInit /\ [][ListNext]_vars

\* Largest view count explored.
MaxViews == 2

\* The keys a caller gives get_section: id strings, which are also slugs of
\* the drawn stores, and paths with their leading "/".
GetKeys == {IdStr(i) : i \in Ids \cup {GhostId}} \cup {"/" \o IdStr(1), "/" \o IdStr(2)}

\* The lookup with the slug tried before the _id.
GetLookup_SlugFirst(st, id_or_slug) ==
    LET by_id == {i \in DOMAIN st : IdStr(i) = id_or_slug}
        by_slug == {i \in DOMAIN st : st[i].slug = id_or_slug}
        by_slash_path == {i \in DOMAIN st : st[i].full_path = "/" \o id_or_slug}
        by_path == {i \in DOMAIN st : st[i].full_path = id_or_slug}
    IN  IF by_slug # {} THEN by_slug
        ELSE IF by_id # {} THEN by_id
        ELSE IF by_slash_path # {} THEN by_slash_path
        ELSE by_path

\* The four find_one calls of get_section: the documents the first query that
\* matches anything may return (find_one returns any one of its matches).
GetLookup(st, id_or_slug) ==
    LET by_id == {i \in DOMAIN st : IdStr(i) = id_or_slug}
        by_slug == {i \in DOMAIN st : st[i].slug = id_or_slug}
        by_slash_path == {i \in DOMAIN st : st[i].full_path = "/" \o id_or_slug}
        by_path == {i \in DOMAIN st : st[i].full_path = id_or_slug}
    IN  IF by_id # {} THEN by_id
        ELSE IF by_slug # {} THEN by_slug
        ELSE IF by_slash_path # {} THEN by_slash_path
        ELSE by_path

\* One entry of breadcrumbs.
Crumb(st, id) == [id |-> id, full_path |-> st[id].full_path]

\* The breadcrumbs loop with append in place of insert(0, ...).
RECURSIVE BreadcrumbWalk_Append(_, _, _)
BreadcrumbWalk_Append(st, current_parent_id, breadcrumbs) ==
    IF ~Truthy(current_parent_id) THEN breadcrumbs
    ELSE IF current_parent_id \in DOMAIN st
    THEN BreadcrumbWalk_Append(st, st[current_parent_id].parent_id,
                               Append(breadcrumbs, Crumb(st, current_parent_id)))
    ELSE breadcrumbs

\* `while current_parent_id:` of get_section, on a store that does not change
\* during the walk.
RECURSIVE BreadcrumbWalk(_, _, _)
BreadcrumbWalk(st, current_parent_id, breadcrumbs) ==
    IF ~Truthy(current_parent_id) THEN breadcrumbs
    ELSE IF current_parent_id \in DOMAIN st
    THEN BreadcrumbWalk(st, st[current_parent_id].parent_id,
                        <<Crumb(st, current_parent_id)>> \o breadcrumbs)
    ELSE breadcrumbs

\* The view count written as 1 instead of incremented.
IncViews_SetOne(st, id) ==
    IF id \in DOMAIN st THEN [st EXCEPT ![id].views = 1] ELSE st

\* The $inc of views on the document the lookup returned.
IncViews(st, id) ==
    IF id \in DOMAIN st THEN [st EXCEPT ![id].views = @ + 1] ELSE st

\* GET /sections/{id_or_slug}?increment_views=
get_section(id_or_slug, increment_views) ==
    IF GetLookup(sections, id_or_slug) = {}
    THEN /\ last' = [op |-> "get", key |-> id_or_slug, increment_views |-> increment_views,
                     id |-> NoneId, result |-> "NotFound", breadcrumbs |-> <<>>,
                     children_count |-> 0, before |-> sections]
         /\ UNCHANGED sections
    ELSE \E id \in GetLookup(sections, id_or_slug) :
            LET st1 == IF increment_views THEN IncViews(sections, id) ELSE sections
            IN  /\ sections' = st1
                /\ last' = [op |-> "get", key |-> id_or_slug,
                            increment_views |-> increment_views,
                            id |-> id, result |-> "ok",
                            breadcrumbs |-> BreadcrumbWalk(st1, sections[id].parent_id, <<>>),
                            children_count |-> Cardinality(ChildrenOf(st1, id)),
                            before |-> sections]

\* The stores a get call is applied to: every slug assignment that keeps
\* sibling slugs and full_path values distinct.
GetInit ==
    /\ \E pm \in ParentMaps, sm \in [Ids -> Slugs] :
          /\ sections = StoreOf(pm, sm, [i \in Ids |-> "draft"], [i \in Ids |-> 0],
                                [i \in Ids |-> FALSE], [i \in Ids |-> 0])
          /\ \A i, j \in Ids : i # j =>
                /\ sections[i].full_path # sections[j].full_path
                /\ pm[i] = pm[j] => sm[i] # sm[j]
    /\ nextId = MaxSections + 1
    /\ last = NoCall
    /\ procs = NoProcs

Get ==
    /\ Idle
    /\ \E id_or_slug \in GetKeys, increment_views \in BOOLEAN :
          get_section(id_or_slug, increment_views)
    /\ \A i \in DOMAIN sections' : sections'[i].views <= MaxViews
    /\ UNCHANGED <<nextId, procs>>

GetNext == Get \/ Respond

SpecGet == GetInit /\ [][GetNext]_vars

(***************************************************************************)
(* Interleaved requests.  The handlers are coroutines: a request runs      *)
(* until its next `await` of a store operation, and between two store      *)
(* operations of one request any other request may run.  Each action below *)
(* is one store operation of one request together with the local           *)
(* computation that follows it.                                            *)
(***************************************************************************)

\* Number of requests in progress at the same time.
NumProcs == 2

Procs == 1..NumProcs

\* A Section document with the given hierarchy fields and default payload.
SectionDoc(slug, full_path, parent_id, parent_path, level) ==
    [slug |-> slug, full_path |-> full_path, parent_id |-> parent_id,
     parent_path |-> parent_path, level |-> level,
     order |-> 0, in_main_menu |-> FALSE, status |-> "draft", views |-> 0]

\* The stores the interleaved requests start from, each left by earlier
\* create calls: one root; a root and its child; two roots.
OneRoot == [i \in {1} |-> NewSection("a", NoneId, <<>>)]
RootAndChild == [i \in {1, 2} |-> IF i = 1 THEN OneRoot[1] ELSE NewSection("b", 1, OneRoot)]
TwoRoots == [i \in {1, 2} |-> IF i = 1 THEN OneRoot[1] ELSE NewSection("b", NoneId, OneRoot)]
ConcStores == {OneRoot, RootAndChild, TwoRoots}

\* The keys of the interleaved get calls: an id (also a slug) and paths.
ConcKeys == {IdStr(1), IdStr(2), "/" \o IdStr(1)}

\* A request that has not arrived yet, and its local variables.
IdleProc ==
    [op |-> "none", pc |-> "idle", result |-> NoneStr,
     id |-> NoneId, slug |-> NoneStr, parent_id |-> NoneId,
     key |-> NoneStr, increment_views |-> FALSE,
     section |-> [slug |-> NoneStr, parent_id |-> NoneId],
     full_path |-> NoneStr, level |-> 0, parent_path |-> NoneStr,
     current_id |-> NoneId, visited |-> {},
     scan |-> [section_id |-> NoneId, new_path |-> NoneStr], stack |-> <<>>,
     scanned |-> {}, query |-> 1, breadcrumbs |-> <<>>, children_count |-> 0,
     cascade |-> FALSE, calls |-> <<>>]

\* Request p moves to the local state r; nothing else of procs changes.
Goto(p, r) == procs' = [procs EXCEPT ![p] = r]

\* Request p ends with the given outcome.
Return(p, r, result) == Goto(p, [r EXCEPT !.pc = "done", !.result = result])

\* A request arrives: its handler and its arguments.
Arrive ==
    \E p \in Procs :
        /\ procs[p].pc = "idle"
        /\ \/ \E slug \in Slugs, parent_id \in ParentInputs :
                 Goto(p, [procs[p] EXCEPT !.op = "create", !.pc = "c_check",
                                          !.slug = slug, !.parent_id = parent_id])
           \/ \E id \in IdInputs, slug \in Slugs \cup {NoneStr}, parent_id \in ParentInputs :
                 Goto(p, [procs[p] EXCEPT !.op = "update", !.pc = "u_find", !.id = id,
                                          !.slug = slug, !.parent_id = parent_id])
           \/ \E key \in ConcKeys, increment_views \in BOOLEAN :
                 Goto(p, [procs[p] EXCEPT !.op = "get", !.pc = "g_find", !.key = key,
                                          !.increment_views = increment_views])
           \/ \E key \in ConcKeys :
                 Goto(p, [procs[p] EXCEPT !.op = "get_by_path", !.pc = "g_find", !.key = key,
                                          !.increment_views = TRUE, !.query = 4])
           \/ \E id \in IdInputs, cascade \in BOOLEAN :
                 Goto(p, [procs[p] EXCEPT !.op = "delete", !.pc = "d_find", !.id = id,
                                          !.current_id = id, !.cascade = cascade])
        /\ UNCHANGED <<sections, nextId, last>>

\* create_section: the uniqueness find_one.
CreateCheck ==
    \E p \in Procs :
        LET r == procs[p]
        IN  /\ r.pc = "c_check"
            /\ IF SlugExists(r.slug, r.parent_id, sections)
               THEN Return(p, r, "Conflict")
               ELSE Goto(p, [r EXCEPT !.pc = "c_path"])
            /\ UNCHANGED <<sections, nextId, last>>

\* create_section: build_full_path.
CreatePath ==
    \E p \in Procs :
        LET r == procs[p]
            b == build_full_path(r.parent_id, r.slug, sections)
        IN  /\ r.pc = "c_path"
            /\ IF ~b.ok THEN Return(p, r, "NotFound")
               ELSE Goto(p, [r EXCEPT !.full_path = b.full_path, !.level = b.level,
                                      !.pc = IF Truthy(r.parent_id)
                                             THEN "c_parent" ELSE "c_insert"])
            /\ UNCHANGED <<sections, nextId, last>>

\* The find_one of the parent that yields parent_path (create and update).
ParentPathOf(st, parent_id) ==
    IF parent_id \in DOMAIN st THEN st[parent_id].full_path ELSE NoneStr

\* create_section: the second find_one of the parent.
CreateParent ==
    \E p \in Procs :
        LET r == procs[p]
        IN  /\ r.pc = "c_parent"
            /\ Goto(p, [r EXCEPT !.parent_path = ParentPathOf(sections, r.parent_id),
                                 !.pc = "c_insert"])
            /\ UNCHANGED <<sections, nextId, last>>

\* create_section: insert_one and the response.
CreateInsert ==
    \E p \in Procs :
        LET r == procs[p]
            id == nextId
        IN  /\ r.pc = "c_insert"
            /\ IF DuplicateKey(sections, id, r.full_path)
               THEN /\ Return(p, r, "DuplicateKey")
                    /\ UNCHANGED <<sections, nextId>>
               ELSE /\ nextId <= MaxSections
                    /\ sections' = [j \in DOMAIN sections \cup {id} |->
                                       IF j = id
                                       THEN SectionDoc(r.slug, r.full_path, r.parent_id,
                                                       r.parent_path, r.level)
                                       ELSE sections[j]]
                    /\ nextId' = nextId + 1
                    /\ Return(p, [r EXCEPT !.id = id], "ok")
            /\ UNCHANGED last

\* update_section: find_one of the section, and the tests of
\* check_circular_reference that precede its loop.
UpdateFind ==
    \E p \in Procs :
        LET r == procs[p]
            r1 == [r EXCEPT !.section = [slug |-> sections[r.id].slug,
                                         parent_id |-> sections[r.id].parent_id]]
        IN  /\ r.pc = "u_find"
            /\ IF r.id \notin DOMAIN sections THEN Return(p, r, "NotFound")
               ELSE IF r.parent_id # NoneId
               THEN IF r.id = r.parent_id THEN Return(p, r1, "InvalidOperation")
                    ELSE Goto(p, [r1 EXCEPT !.pc = "u_cycle", !.current_id = r.parent_id])
               ELSE IF r.slug # NoneStr THEN Goto(p, [r1 EXCEPT !.pc = "u_path"])
               ELSE Goto(p, [r1 EXCEPT !.pc = "u_write"])
            /\ UNCHANGED <<sections, nextId, last>>

\* The loop of check_circular_reference without its visited set.
Revisit_TargetOnly(current_id, visited, section_id) == current_id = section_id

\* check_circular_reference: the two tests at the top of the loop body.
Revisit(current_id, visited, section_id) ==
    current_id \in visited \/ current_id = section_id

\* check_circular_reference: one find_one of the loop, and the tests made on
\* the parent_id it returns.
UpdateCycle ==
    \E p \in Procs :
        LET r == procs[p]
            visited == r.visited \cup {r.current_id}
        IN  /\ r.pc = "u_cycle"
            /\ IF r.current_id \notin DOMAIN sections
               THEN Goto(p, [r EXCEPT !.pc = "u_path", !.visited = visited])
               ELSE LET current_id == sections[r.current_id].parent_id
                    IN  IF ~Truthy(current_id)
                        THEN Goto(p, [r EXCEPT !.pc = "u_path", !.visited = visited])
                        ELSE IF Revisit(current_id, visited, r.id)
                        THEN Return(p, [r EXCEPT !.visited = visited], "InvalidOperation")
                        ELSE Goto(p, [r EXCEPT !.current_id = current_id,
                                               !.visited = visited])
            /\ UNCHANGED <<sections, nextId, last>>

\* update_section: build_full_path with the new slug and parent, or with
\* those of the section as find_one returned it.
UpdatePath ==
    \E p \in Procs :
        LET r == procs[p]
            new_slug == IF r.slug # NoneStr THEN r.slug ELSE r.section.slug
            new_parent_id == IF r.parent_id # NoneId THEN r.parent_id
                             ELSE r.section.parent_id
            b == build_full_path(new_parent_id, new_slug, sections)
        IN  /\ r.pc = "u_path"
            /\ IF ~b.ok THEN Return(p, r, "NotFound")
               ELSE Goto(p, [r EXCEPT !.full_path = b.full_path, !.level = b.level,
                                      !.scan = [section_id |-> r.id, new_path |-> b.full_path],
                                      !.pc = IF r.parent_id # NoneId
                                             THEN "u_parent" ELSE "u_scan"])
            /\ UNCHANGED <<sections, nextId, last>>

\* update_section: the find_one of the new parent that yields parent_path.
UpdateParent ==
    \E p \in Procs :
        LET r == procs[p]
        IN  /\ r.pc = "u_parent"
            /\ Goto(p, [r EXCEPT !.parent_path = ParentPathOf(sections, r.parent_id),
                                 !.pc = "u_scan"])
            /\ UNCHANGED <<sections, nextId, last>>

\* The frames of update_children_paths that still have a child to rewrite.
RECURSIVE Unwind(_)
Unwind(stack) ==
    IF stack # <<>> /\ Head(stack).children = <<>> THEN Unwind(Tail(stack)) ELSE stack

\* update_children_paths: find({"parent_id": section_id}).to_list(1000), the
\* children as the store returns them.  The recursion is followed as deep as
\* a store of MaxSections sections without a cycle can take it.
UpdateScan ==
    \E p \in Procs :
        LET r == procs[p]
            found == ChildrenOf(sections, r.scan.section_id)
        IN  /\ r.pc = "u_scan"
            /\ Len(r.stack) <= MaxSections
            /\ \E ord \in AllOrders :
                  LET ids == InOrder(found, ord, 1)
                      frame == [children |-> [k \in 1..Len(ids) |->
                                                 [id |-> ids[k], slug |-> sections[ids[k]].slug]],
                                new_path |-> r.scan.new_path]
                      stack == Unwind(<<frame>> \o r.stack)
                  IN  Goto(p, [r EXCEPT !.stack = stack,
                                        !.scanned = @ \cup found,
                                        !.pc = IF stack = <<>> THEN "u_write" ELSE "u_child"])
            /\ UNCHANGED <<sections, nextId, last>>

\* The child rewrite left out: the loop only recurses.
ChildWrite_Skipped(st, child, child_full_path, new_path) == st

\* update_children_paths: the $set of one child (no document matches when the
\* child is gone).
ChildWrite(st, child, child_full_path, new_path) ==
    IF child \in DOMAIN st
    THEN [st EXCEPT ![child].full_path = child_full_path, ![child].parent_path = new_path]
    ELSE st

\* update_children_paths: update_one of the next child; the recursive call
\* for that child comes next.
UpdateChild ==
    \E p \in Procs :
        LET r == procs[p]
            frame == Head(r.stack)
            child == Head(frame.children)
            child_full_path == frame.new_path \o "/" \o child.slug
        IN  /\ r.pc = "u_child"
            /\ IF child.id \in DOMAIN sections
                  /\ DuplicateKey(sections, child.id, child_full_path)
               THEN /\ Return(p, r, "DuplicateKey")
                    /\ UNCHANGED sections
               ELSE /\ sections' = ChildWrite(sections, child.id, child_full_path, frame.new_path)
                    /\ Goto(p, [r EXCEPT
                          !.stack = <<[frame EXCEPT !.children = Tail(@)]>> \o Tail(r.stack),
                          !.scan = [section_id |-> child.id, new_path |-> child_full_path],
                          !.pc = "u_scan"])
            /\ UNCHANGED <<nextId, last>>

\* The $set of update_section on the section itself, from the values the
\* request computed.
SetUpdateData(doc, r) ==
    LET d1 == IF r.slug # NoneStr THEN [doc EXCEPT !.slug = r.slug] ELSE doc
        d2 == IF r.parent_id # NoneId
              THEN [d1 EXCEPT !.parent_id = r.parent_id, !.parent_path = r.parent_path]
              ELSE d1
    IN  IF r.slug # NoneStr \/ r.parent_id # NoneId
        THEN [d2 EXCEPT !.full_path = r.full_path, !.level = r.level]
        ELSE d2

\* update_section: update_one of the section and the response.
UpdateWrite ==
    \E p \in Procs :
        LET r == procs[p]
        IN  /\ r.pc = "u_write"
            /\ IF r.id \notin DOMAIN sections
               THEN Return(p, r, "NotFound") /\ UNCHANGED sections
               ELSE IF DuplicateKey(sections, r.id, SetUpdateData(sections[r.id], r).full_path)
               THEN Return(p, r, "DuplicateKey") /\ UNCHANGED sections
               ELSE /\ sections' = [sections EXCEPT ![r.id] = SetUpdateData(@, r)]
                    /\ Return(p, r, "ok")
            /\ UNCHANGED <<nextId, last>>

\* get_section_by_path: the path with its leading "/".
NormalizePath(path) == IF path \in {"/" \o IdStr(i) : i \in Ids} THEN path ELSE "/" \o path

\* The documents the k-th find_one of get_section matches; get_section_by_path
\* has only the last one, on the normalized path.
GetQuery(st, r) ==
    IF r.op = "get_by_path" THEN {i \in DOMAIN st : st[i].full_path = NormalizePath(r.key)}
    ELSE IF r.query = 1 THEN {i \in DOMAIN st : IdStr(i) = r.key}
    ELSE IF r.query = 2 THEN {i \in DOMAIN st : st[i].slug = r.key}
    ELSE IF r.query = 3 THEN {i \in DOMAIN st : st[i].full_path = "/" \o r.key}
    ELSE {i \in DOMAIN st : st[i].full_path = r.key}

\* get_section / get_section_by_path: one find_one of the lookup.
GetFind ==
    \E p \in Procs :
        LET r == procs[p]
            matches == GetQuery(sections, r)
        IN  /\ r.pc = "g_find"
            /\ IF matches # {}
               THEN \E id \in matches :
                       Goto(p, [r EXCEPT !.id = id,
                                         !.section = [slug |-> sections[id].slug,
                                                      parent_id |-> sections[id].parent_id],
                                         !.pc = IF r.increment_views THEN "g_inc" ELSE "g_count"])
               ELSE IF r.query = 4 THEN Return(p, r, "NotFound")
               ELSE Goto(p, [r EXCEPT !.query = @ + 1])
            /\ UNCHANGED <<sections, nextId, last>>

\* get_section / get_section_by_path: update_one with $inc.
GetInc ==
    \E p \in Procs :
        LET r == procs[p]
        IN  /\ r.pc = "g_inc"
            /\ sections' = IncViews(sections, r.id)
            /\ Goto(p, [r EXCEPT !.pc = "g_count"])
            /\ UNCHANGED <<nextId, last>>

\* get_section / get_section_by_path: count_documents of the children.
GetCount ==
    \E p \in Procs :
        LET r == procs[p]
            r1 == [r EXCEPT !.children_count = Cardinality(ChildrenOf(sections, r.id))]
        IN  /\ r.pc = "g_count"
            /\ IF Truthy(r.section.parent_id)
               THEN Goto(p, [r1 EXCEPT !.pc = "g_crumb", !.current_id = r.section.parent_id])
               ELSE Return(p, r1, "ok")
            /\ UNCHANGED <<sections, nextId, last>>

\* get_section / get_section_by_path: one find_one of the breadcrumbs loop.
\* The list is recorded up to MaxSections entries, which a walk on a chain
\* without a cycle never exceeds; the loop itself has no such limit.
GetCrumb ==
    \E p \in Procs :
        LET r == procs[p]
        IN  /\ r.pc = "g_crumb"
            /\ IF r.current_id \in DOMAIN sections
               THEN LET r1 == [r EXCEPT !.breadcrumbs =
                                            IF Len(@) < MaxSections
                                            THEN <<Crumb(sections, r.current_id)>> \o @
                                            ELSE @,
                                        !.current_id = sections[r.current_id].parent_id]
                    IN  IF Truthy(r1.current_id) THEN Goto(p, r1) ELSE Return(p, r1, "ok")
               ELSE Return(p, r, "ok")
            /\ UNCHANGED <<sections, nextId, last>>

\* delete_section: find_one of the section of the running call, the request's
\* own or a nested one for a child; its 404 ends the whole request.
DeleteFind ==
    \E p \in Procs :
        LET r == procs[p]
        IN  /\ r.pc = "d_find"
            /\ IF r.current_id \notin DOMAIN sections THEN Return(p, r, "NotFound")
               ELSE Goto(p, [r EXCEPT !.pc = "d_count"])
            /\ UNCHANGED <<sections, nextId, last>>

\* delete_section going straight to delete_one whatever the children.
AfterCount_NoCascade(cascade, children_count) == "d_delete"

\* delete_section: the children are listed and deleted first when cascade is
\* set and there are any.
AfterCount(cascade, children_count) ==
    IF cascade /\ children_count > 0 THEN "d_scan" ELSE "d_delete"

\* delete_section: count_documents of the children and the two tests on it
\* (a nested call always has cascade=True).
DeleteCount ==
    \E p \in Procs :
        LET r == procs[p]
            children_count == Cardinality(ChildrenOf(sections, r.current_id))
        IN  /\ r.pc = "d_count"
            /\ IF children_count > 0 /\ ~r.cascade THEN Return(p, r, "InvalidOperation")
               ELSE Goto(p, [r EXCEPT !.children_count = children_count,
                                      !.pc = AfterCount(r.cascade, children_count)])
            /\ UNCHANGED <<sections, nextId, last>>

\* delete_section: find({"parent_id": id}).to_list(1000) and the call for the
\* first child; the running call waits in calls with the children left.
DeleteScan ==
    \E p \in Procs :
        LET r == procs[p]
            found == ChildrenOf(sections, r.current_id)
        IN  /\ r.pc = "d_scan"
            /\ Len(r.calls) < MaxSections
            /\ \E ord \in AllOrders :
                  LET children == InOrder(found, ord, 1)
                  IN  IF children = <<>>
                      THEN Goto(p, [r EXCEPT !.pc = "d_delete"])
                      ELSE Goto(p, [r EXCEPT
                              !.calls = <<[id |-> r.current_id,
                                           children |-> Tail(children)]>> \o @,
                              !.current_id = Head(children),
                              !.pc = "d_find"])
            /\ UNCHANGED <<sections, nextId, last>>

\* delete_section: delete_one of the section of the running call, and the
\* return into the waiting call: its next child, or its own delete_one.
DeleteOne ==
    \E p \in Procs :
        LET r == procs[p]
        IN  /\ r.pc = "d_delete"
            /\ sections' = [j \in DOMAIN sections \ {r.current_id} |-> sections[j]]
            /\ IF r.calls = <<>> THEN Return(p, r, "ok")
               ELSE LET call == Head(r.calls)
                    IN  IF call.children = <<>>
                        THEN Goto(p, [r EXCEPT !.calls = Tail(@), !.current_id = call.id])
                        ELSE Goto(p, [r EXCEPT
                                !.calls = <<[call EXCEPT !.children = Tail(@)]>> \o Tail(r.calls),
                                !.current_id = Head(call.children),
                                !.pc = "d_find"])
            /\ UNCHANGED <<nextId, last>>

ConcInit ==
    /\ sections \in ConcStores
    /\ nextId = Cardinality(DOMAIN sections) + 1
    /\ last = NoCall
    /\ procs = [p \in Procs |-> IdleProc]

ConcNext ==
    \/ Arrive
    \/ CreateCheck \/ CreatePath \/ CreateParent \/ CreateInsert
    \/ UpdateFind \/ UpdateCycle \/ UpdatePath \/ UpdateParent
    \/ UpdateScan \/ UpdateChild \/ UpdateWrite
    \/ GetFind \/ GetInc \/ GetCount \/ GetCrumb
    \/ DeleteFind \/ DeleteCount \/ DeleteScan \/ DeleteOne

SpecConc == ConcInit /\ [][ConcNext]_vars

(***************************************************************************)
(* One request running alone, step by step, on stores of up to three       *)
(* sections.  last.before keeps the store the request started from.        *)
(***************************************************************************)

\* Stores of three sections left by earlier create calls: a chain, and a root
\* with two children.
ChainOfThree ==
    [i \in {1, 2, 3} |-> IF i < 3 THEN RootAndChild[i] ELSE NewSection("a", 2, RootAndChild)]
RootWithTwoChildren ==
    [i \in {1, 2, 3} |-> IF i < 3 THEN RootAndChild[i] ELSE NewSection("a", 1, RootAndChild)]
AloneStores == ConcStores \cup {ChainOfThree, RootWithTwoChildren}

\* A request slot that stays unused.
NoRequest == [IdleProc EXCEPT !.pc = "done"]

AloneInit ==
    /\ sections \in AloneStores
    /\ nextId = Cardinality(DOMAIN sections) + 1
    /\ last = [NoCall EXCEPT !.before = sections]
    /\ procs = [p \in Procs |-> IF p = 1 THEN IdleProc ELSE NoRequest]

SpecAlone == AloneInit /\ [][ConcNext]_vars

(***************************************************************************)
(* One request on a store whose parent links may be malformed: they may    *)
(* form a cycle or name a record that is gone.  A request that can take a  *)
(* step takes it (the event loop resumes a coroutine whose store operation *)
(* has completed).                                                         *)
(***************************************************************************)

\* The store of n root sections whose parent_id fields were then overwritten
\* by pm.
MalformedStore(n, pm) ==
    [i \in 1..n |-> [NewSection(SlugOfId(i), NoneId, <<>>) EXCEPT !.parent_id = pm[i]]]

MalformedStores ==
    UNION {{MalformedStore(n, pm) : pm \in [1..n -> {NoneId, GhostId} \cup Ids]} :
              n \in 2..MaxSections}

CycleInit ==
    /\ sections \in MalformedStores
    /\ nextId = Cardinality(DOMAIN sections) + 1
    /\ last = [NoCall EXCEPT !.before = sections]
    /\ procs = [p \in Procs |-> IF p = 1 THEN IdleProc ELSE NoRequest]

SpecCycle == CycleInit /\ [][ConcNext]_vars /\ WF_vars(ConcNext)

(***************************************************************************)
(* One request on a store that earlier requests left, with the same        *)
(* scheduling: a request that can take a step takes it.                    *)
(***************************************************************************)

\* The store two interleaved updates leave from TwoRoots: update(1, parent_id=2)
\* and update(2, parent_id=1), each through its cycle check before the other's
\* update_one.
MutualParents ==
    [i \in {1, 2} |-> IF i = 1 THEN SectionDoc("a", "/b/a", 2, "/b", 1)
                                ELSE SectionDoc("b", "/a/b", 1, "/a", 1)]

WalkStores == ConcStores \cup {MutualParents}

WalkInit ==
    /\ sections \in WalkStores
    /\ nextId = Cardinality(DOMAIN sections) + 1
    /\ last = [NoCall EXCEPT !.before = sections]
    /\ procs = [p \in Procs |-> IF p = 1 THEN IdleProc ELSE NoRequest]

SpecWalk == WalkInit /\ [][ConcNext]_vars /\ WF_vars(ConcNext)

(***************************************************************************)
(* Properties.                                                             *)
(***************************************************************************)

\* A section without a parent: parent_id None (or falsy, as the handlers test it).
IsRoot(doc) == ~Truthy(doc.parent_id)

Resolves(st, s) == Truthy(st[s].parent_id) /\ st[s].parent_id \in DOMAIN st

\* C1: every stored section has full_path = "/" + slug when it is a root and
\* full_path = full_path(parent) + "/" + slug otherwise.
C1_PathInvariant ==
    \A s \in DOMAIN sections :
        /\ IsRoot(sections[s]) => sections[s].full_path = "/" \o sections[s].slug
        /\ Resolves(sections, s) =>
              sections[s].full_path =
                  sections[sections[s].parent_id].full_path \o "/" \o sections[s].slug

\* C2: every stored section has level 0 when it is a root and level(parent) + 1
\* otherwise.
C2_LevelInvariant ==
    \A s \in DOMAIN sections :
        /\ IsRoot(sections[s]) => sections[s].level = 0
        /\ Resolves(sections, s) =>
              sections[s].level = sections[sections[s].parent_id].level + 1

\* C3: no two distinct stored sections have the same slug and the same parent_id.
C3_SiblingSlugsUnique ==
    \A s, t \in DOMAIN sections :
        (s # t /\ sections[s].parent_id = sections[t].parent_id)
            => sections[s].slug # sections[t].slug

\* C4: following parent_id from any stored section reaches None or a missing
\* record without visiting any section twice.
C4_Acyclic == \A s \in DOMAIN sections : ChainEnds(sections, s, {})

\* C4 witness: an update has moved a root section that has a child under
\* another section, making a parent chain of three.
C4_Witness ==
    /\ last.op = "update" /\ last.result = "ok"
    /\ last.id \in DOMAIN last.before
    /\ ~Truthy(last.before[last.id].parent_id)
    /\ Truthy(last.parent_id)
    /\ sections[last.id].parent_id = last.parent_id
    /\ ChildrenOf(sections, last.id) # {}

\* The update being answered names a stored section and sets its parent_id to
\* the section itself or to one of its descendants.
CycleAttempt ==
    /\ last.op = "update"
    /\ last.id \in DOMAIN last.before
    /\ last.parent_id \in Subtree(last.before, last.id)

\* C5: an update that sets parent_id to the section itself, a child or any
\* descendant fails with InvalidOperation and leaves every record as it was.
C5_CycleRejected ==
    CycleAttempt => (last.result = "InvalidOperation" /\ sections = last.before)

\* C5 witness: the rejected parent is a descendant two levels below the section.
C5_Witness ==
    /\ CycleAttempt
    /\ last.parent_id # last.id
    /\ last.parent_id \notin ChildrenOf(last.before, last.id)
    /\ last.result = "InvalidOperation"

\* parent_id values that name the same parent (None for any root).
SameParent(p, q) == (IF Truthy(p) THEN p ELSE NoneId) = (IF Truthy(q) THEN q ELSE NoneId)

SiblingHasSlug(st, slug, parent_id) ==
    \E j \in DOMAIN st : st[j].slug = slug /\ SameParent(st[j].parent_id, parent_id)

\* C6: create fails with Conflict and stores nothing when a stored section has
\* the same slug and parent_id; create with a slug that exists only under a
\* different parent_id succeeds and stores the new section.
C6_CreateUniqueness ==
    last.op = "create" =>
        /\ SiblingHasSlug(last.before, last.slug, last.parent_id)
              => (last.result = "Conflict" /\ sections = last.before)
        /\ ( /\ ~SiblingHasSlug(last.before, last.slug, last.parent_id)
             /\ \E j \in DOMAIN last.before : last.before[j].slug = last.slug
             /\ (Truthy(last.parent_id) => last.parent_id \in DOMAIN last.before) )
              => ( /\ last.result = "ok"
                   /\ last.id \in DOMAIN sections \ DOMAIN last.before
                   /\ sections[last.id].slug = last.slug )

\* The delete being answered names a stored section.
DeleteOfStored(cascade) ==
    /\ last.op = "delete"
    /\ last.cascade = cascade
    /\ last.id \in DOMAIN last.before

\* The store st without the records ids.
Without(st, ids) == [j \in DOMAIN st \ ids |-> st[j]]

\* C7: delete without cascade of a section with a child fails with
\* InvalidOperation and removes nothing; of a childless section it removes
\* exactly that section.
C7_DeleteBlockedByChildren ==
    DeleteOfStored(FALSE) =>
        IF ChildrenOf(last.before, last.id) # {}
        THEN last.result = "InvalidOperation" /\ sections = last.before
        ELSE last.result = "ok" /\ sections = Without(last.before, {last.id})

\* C7 witness: the refused delete names a section with a child and a grandchild.
C7_Witness ==
    /\ DeleteOfStored(FALSE)
    /\ last.result = "InvalidOperation"
    /\ Cardinality(Subtree(last.before, last.id)) = 3
    /\ Cardinality(ChildrenOf(last.before, last.id)) = 1

C9_ParentPathInSync ==
    \A s \in DOMAIN sections :
        /\ IsRoot(sections[s]) => sections[s].parent_path = NoneStr
        /\ Resolves(sections, s) =>
              sections[s].parent_path = sections[sections[s].parent_id].full_path

\* C10: a successful create adds exactly one record and changes no other; the
\* new record has the path, level and parent_path computed from its parent,
\* and the returned full_path is the stored one.
C10_CreateResult ==
    (last.op = "create" /\ last.result = "ok") =>
        /\ last.id \notin DOMAIN last.before
        /\ DOMAIN sections = DOMAIN last.before \cup {last.id}
        /\ \A j \in DOMAIN last.before : sections[j] = last.before[j]
        /\ sections[last.id].slug = last.slug
        /\ sections[last.id].parent_id = last.parent_id
        /\ IF ~Truthy(last.parent_id)
           THEN /\ sections[last.id].full_path = "/" \o last.slug
                /\ sections[last.id].level = 0
                /\ sections[last.id].parent_path = NoneStr
           ELSE /\ last.parent_id \in DOMAIN last.before
                /\ sections[last.id].full_path =
                       last.before[last.parent_id].full_path \o "/" \o last.slug
                /\ sections[last.id].level = last.before[last.parent_id].level + 1
                /\ sections[last.id].parent_path = last.before[last.parent_id].full_path
        /\ last.ret = sections[last.id].full_path

\* C10 witness: a section was created under a parent that is not a root.
C10_Witness ==
    /\ last.op = "create" /\ last.result = "ok"
    /\ Truthy(last.parent_id)
    /\ Truthy(last.before[last.parent_id].parent_id)

\* The create or update being answered names a parent_id that no stored
\* section has.
MissingParentCall ==
    /\ last.op \in {"create", "update"}
    /\ Truthy(last.parent_id)
    /\ last.parent_id \notin DOMAIN last.before

\* C11: a create whose parent_id, or an update whose new parent_id, matches no
\* stored section fails with NotFound and leaves every stored record as it was.
C11_MissingParentNotFound ==
    MissingParentCall => (last.result = "NotFound" /\ sections = last.before)

\* C11 witness: the refused update names a stored section that has a child,
\* whose path the call would have rewritten.
C11_Witness ==
    /\ MissingParentCall
    /\ last.op = "update"
    /\ last.id \in DOMAIN last.before
    /\ last.slug # NoneStr
    /\ ChildrenOf(last.before, last.id) # {}
    /\ last.result = "NotFound"

\* C19: a create whose slug is the empty string fails and stores no record.
C19_EmptySlugRejected ==
    (last.op = "create" /\ last.slug = "") =>
        (last.result # "ok" /\ sections = last.before)

\* The sections a tree call loads: all, or those of the status asked for.
TreeLoadedIds ==
    {i \in DOMAIN sections : last.status = NoneStr \/ sections[i].status = last.status}

\* How many times x occurs in seq.
SeqCount(seq, x) == Cardinality({k \in 1..Len(seq) : seq[k] = x})

\* Every entry of a forest, at any depth.
RECURSIVE ForestNodes(_)
ForestNodes(forest) ==
    UNION {{forest[k]} \cup ForestNodes(forest[k].children) : k \in 1..Len(forest)}

\* The ids of the entries of a list of trees, in order.
EntryIds(forest) == [k \in 1..Len(forest) |-> forest[k].id]

\* C16: whatever order the store returns the loaded sections in, the top-level
\* entries of tree() are exactly the loaded sections with parent_id None, and
\* every loaded section whose parent_id names a loaded section occurs exactly
\* once in that parent's children list.
C16_TreeAnyInputOrder ==
    last.op = "tree" =>
        /\ \A i \in DOMAIN sections :
              SeqCount(EntryIds(last.ret), i) =
                  (IF i \in TreeLoadedIds /\ sections[i].parent_id = NoneId THEN 1 ELSE 0)
        /\ \A c \in TreeLoadedIds :
              sections[c].parent_id \in TreeLoadedIds =>
                  /\ SeqCount(last.children[sections[c].parent_id], c) = 1
                  /\ \A n \in ForestNodes(last.ret) :
                        n.id = sections[c].parent_id =>
                            SeqCount(EntryIds(n.children), c) = 1

\* C16 witness: a child came before its parent in the input and the parent is
\* a top-level entry with that child below it.
C16_Witness ==
    /\ last.op = "tree"
    /\ \E i, j \in 1..Len(last.loaded) :
          /\ i < j
          /\ sections[last.loaded[i]].parent_id = last.loaded[j]
          /\ \E k \in 1..Len(last.ret) :
                /\ last.ret[k].id = last.loaded[j]
                /\ SeqCount(EntryIds(last.ret[k].children), last.loaded[i]) = 1

\* A loaded section whose parent_id is set and names no loaded section.
TreeOrphan(c) ==
    /\ c \in TreeLoadedIds
    /\ Truthy(sections[c].parent_id)
    /\ sections[c].parent_id \notin TreeLoadedIds

\* C17: a loaded section whose parent_id names no loaded section occurs nowhere
\* in the forest tree(status) returns, nor does any of its loaded descendants,
\* and the call raises no error.
C17_TreeDropsOrphans ==
    last.op = "tree" =>
        /\ last.result = "ok"
        /\ \A c \in TreeLoadedIds :
              TreeOrphan(c) =>
                  \A d \in Subtree([i \in TreeLoadedIds |-> sections[i]], c) :
                      \A n \in ForestNodes(last.ret) : n.id # d

\* C17 witness: the status filter excluded the stored parent of a loaded
\* section that has a loaded child.
C17_Witness ==
    /\ last.op = "tree"
    /\ last.status # NoneStr
    /\ \E c \in TreeLoadedIds :
          /\ TreeOrphan(c)
          /\ sections[c].parent_id \in DOMAIN sections
          /\ \E d \in TreeLoadedIds : sections[d].parent_id = c

\* The stored sections that satisfy every filter the list call supplied.
ListMatches ==
    {i \in DOMAIN sections :
        /\ last.parent_id \in {"null", ""} => sections[i].parent_id = NoneId
        /\ last.parent_id \notin {NoneStr, "null", ""} =>
              (sections[i].parent_id # NoneId /\ IdStr(sections[i].parent_id) = last.parent_id)
        /\ \A v \in 0..MaxLevel : last.level = <<v>> => sections[i].level = v
        /\ last.status \in Statuses => sections[i].status = last.status
        /\ \A v \in BOOLEAN : last.in_main_menu = <<v>> => sections[i].in_main_menu = v}

\* The matches the page leaves out.
ListLeftOut == {m \in ListMatches : SeqCount(last.items, m) = 0}

\* C20: list returns the sections satisfying all supplied filters (parent_id
\* "null" or "" selecting parent_id None), sorted by order ascending, without
\* the first skip and at most limit of them; total counts all the matches.
C20_ListSemantics ==
    last.op = "list" =>
        LET n == Len(last.items)
            rest == Cardinality(ListMatches) - last.skip
        IN  /\ last.total = Cardinality(ListMatches)
            /\ \A i \in DOMAIN sections :
                  SeqCount(last.items, i) <= (IF i \in ListMatches THEN 1 ELSE 0)
            /\ \A k, l \in 1..n :
                  k < l => sections[last.items[k]].order <= sections[last.items[l]].order
            /\ n = (IF rest < 0 THEN 0 ELSE IF rest < last.limit THEN rest ELSE last.limit)
            /\ n > 0 =>
                  /\ \A m \in ListLeftOut :
                        \/ sections[m].order <= sections[last.items[1]].order
                        \/ sections[m].order >= sections[last.items[n]].order
                  /\ Cardinality({m \in ListLeftOut :
                        sections[m].order < sections[last.items[1]].order}) <= last.skip
                  /\ Cardinality({m \in ListLeftOut :
                        sections[m].order <= sections[last.items[1]].order}) >= last.skip

\* C20 witness: roots of one status are asked for with parent_id "null", three
\* match with different orders, and the page is the middle one.
C20_Witness ==
    /\ last.op = "list"
    /\ last.parent_id = "null" /\ last.status # NoneStr
    /\ last.skip = 1 /\ last.limit = 1
    /\ last.total = 3 /\ Len(last.items) = 1
    /\ \E m \in ListLeftOut : sections[m].order < sections[last.items[1]].order

\* The resolvable ancestors of section s, nearest first: the chain of
\* parent_id links up to a root or to the first link that names no record.
RECURSIVE Ancestors(_, _)
Ancestors(st, s) ==
    IF Resolves(st, s) THEN <<st[s].parent_id>> \o Ancestors(st, st[s].parent_id)
    ELSE <<>>

\* C15: the breadcrumbs of get are the ancestors of the section from the
\* farthest resolvable one (the root when the chain is intact) down to the
\* immediate parent, without the section itself; a parent_id that names no
\* record ends the walk without an error.
C15_Breadcrumbs ==
    (last.op = "get" /\ last.id \in DOMAIN sections) =>
        LET up == Ancestors(sections, last.id)
            n == Len(up)
        IN  /\ last.result = "ok"
            /\ Len(last.breadcrumbs) = n
            /\ \A k \in 1..n :
                  /\ last.breadcrumbs[k].id = up[n - k + 1]
                  /\ last.breadcrumbs[k].full_path = sections[up[n - k + 1]].full_path
            /\ \A k \in 1..n : last.breadcrumbs[k].id # last.id

\* C15 witness: the section has a parent and a grandparent, and the
\* grandparent's parent_id names no record.
C15_Witness ==
    /\ last.op = "get" /\ last.result = "ok"
    /\ Len(last.breadcrumbs) = 2
    /\ sections[last.breadcrumbs[1].id].parent_id = GhostId
    /\ sections[last.id].parent_id = last.breadcrumbs[2].id

OnlyWriters(p, q) ==
    \A o \in Procs \ {p, q} : procs[o].op \in {"none", "get", "get_by_path"}

\* Requests p and q are creates with the same slug under the same stored
\* parent (or both roots), both got past the uniqueness check and both ended.
CreateRace(p, q) ==
    /\ p # q /\ OnlyWriters(p, q)
    /\ procs[p].op = "create" /\ procs[q].op = "create"
    /\ procs[p].pc = "done" /\ procs[q].pc = "done"
    /\ procs[p].slug = procs[q].slug
    /\ procs[p].parent_id = procs[q].parent_id
    /\ ~Truthy(procs[p].parent_id) \/ procs[p].parent_id \in DOMAIN sections
    /\ procs[p].result # "Conflict" /\ procs[q].result # "Conflict"

CreateUnderUpdated(c, u) ==
    /\ c # u /\ OnlyWriters(c, u)
    /\ procs[c].op = "create" /\ procs[c].pc = "done" /\ procs[c].result = "ok"
    /\ procs[u].op = "update" /\ procs[u].pc = "done" /\ procs[u].result = "ok"
    /\ procs[c].parent_id = procs[u].id

\* The section request c created has the path of its parent's stored path.
ChildPathFresh(c) ==
    sections[procs[c].id].full_path =
        sections[procs[c].parent_id].full_path \o "/" \o sections[procs[c].id].slug

\* C13: when an update of P and a create of a child under P have both
\* succeeded, the child's full_path is P.full_path + "/" + slug unless the
\* child was inserted after the update read P's children: in that
\* interleaving the child keeps the path built from what the create read.
C13_StaleOnlyWhenMissedByScan ==
    \A c, u \in Procs :
        CreateUnderUpdated(c, u) =>
            (ChildPathFresh(c) \/ procs[c].id \notin procs[u].scanned)

\* C13 witness: both calls succeeded, the update changed P's path, and the
\* child's stored full_path is the one built from P's old full_path.
C13_Witness ==
    \E c, u \in Procs :
        /\ CreateUnderUpdated(c, u)
        /\ ~ChildPathFresh(c)
        /\ sections[procs[c].id].full_path = procs[c].full_path
        /\ sections[procs[u].id].full_path = procs[u].full_path
        /\ sections[procs[c].id].parent_path # sections[procs[u].id].full_path

\* Request p of the requests pr is a get whose $inc has been applied.
Incremented(pr, p) ==
    /\ pr[p].op \in {"get", "get_by_path"}
    /\ pr[p].increment_views
    /\ pr[p].pc \in {"g_count", "g_crumb"} \/ (pr[p].pc = "done" /\ pr[p].result = "ok")

\* No request is a delete: the requests are create, update and get calls.
NoDelete(pr) == \A p \in Procs : pr[p].op # "delete"

\* C14: among create, update and get requests, the $inc step of a get raises
\* the views of the section it found by 1 and changes nothing else; a get with
\* increment_views off changes nothing; no step of any create, update or get
\* lowers a view count; and however the requests interleave, the views of a
\* section are the initial 0 plus the number of incrementing gets that found it.
C14_ViewCounting ==
    [][ NoDelete(procs') =>
        /\ \A p \in Procs :
              (procs[p].pc = "g_inc" /\ procs'[p].pc # "g_inc") =>
                  sections' = [sections EXCEPT ![procs[p].id].views = @ + 1]
        /\ \A p \in Procs :
              (procs[p].op = "get" /\ ~procs[p].increment_views /\ procs'[p] # procs[p])
                  => sections' = sections
        /\ \A s \in DOMAIN sections :
              s \in DOMAIN sections' /\ sections'[s].views >= sections[s].views
        /\ \A s \in DOMAIN sections' :
              sections'[s].views =
                  Cardinality({p \in Procs : Incremented(procs', p) /\ procs'[p].id = s})
      ]_vars

\* C14 witness: two interleaved gets with increment_views on found the same
\* section, both succeeded, and its views went from 0 to 2.
C14_Witness ==
    \E p, q \in Procs :
        /\ p # q
        /\ procs[p].op = "get" /\ procs[q].op = "get_by_path"
        /\ procs[p].increment_views
        /\ procs[p].pc = "done" /\ procs[q].pc = "done"
        /\ procs[p].result = "ok" /\ procs[q].result = "ok"
        /\ procs[p].id = procs[q].id
        /\ sections[procs[p].id].views = 2

PathUpdate ==
    /\ last.op = "update" /\ last.result = "ok"
    /\ last.id \in DOMAIN last.before
    /\ (last.slug # NoneStr \/ last.parent_id # NoneId)

\* The update that just returned sent a slug and no parent_id.
PureRename == PathUpdate /\ last.slug # NoneStr /\ last.parent_id = NoneId

\* C23: a successful update of S that changes slug and/or parent modifies only
\* S and its descendants, keeps slug and parent_id of every descendant, keeps
\* the level of S and of every descendant on a pure rename, and leaves every
\* section outside the subtree of S as it was.
C23_UpdateFrame ==
    PathUpdate =>
        /\ DOMAIN sections = DOMAIN last.before
        /\ \A s \in DOMAIN last.before \ Subtree(last.before, last.id) :
              sections[s] = last.before[s]
        /\ \A d \in Subtree(last.before, last.id) \ {last.id} :
              /\ sections[d].slug = last.before[d].slug
              /\ sections[d].parent_id = last.before[d].parent_id
        /\ PureRename =>
              \A d \in Subtree(last.before, last.id) :
                  sections[d].level = last.before[d].level

\* C25: however two update calls interleave, one setting the parent of A to B
\* and the other the parent of B to A, the parent graph stays acyclic: in every
\* reachable state the walk up from any stored section ends.
C25_AcyclicUnderReparenting ==
    \A s \in DOMAIN sections : ChainEnds(sections, s, {})

\* C28: when delete(P, cascade=false) interleaves with the create of a child
\* under P and the delete succeeds, no stored section has parent_id P.
C28_DeleteVersusCreate ==
    \A p, q \in Procs :
        ( /\ procs[p].op = "delete" /\ ~procs[p].cascade
          /\ procs[p].pc = "done" /\ procs[p].result = "ok"
          /\ procs[q].op = "create" /\ procs[q].parent_id = procs[p].id )
        => \A s \in DOMAIN sections : sections[s].parent_id # procs[p].id

\* C29: a delete with cascade that failed with NotFound missed the section it
\* was asked to delete, not one of that section's descendants.
C29_NotFoundOnlyForTarget ==
    \A p \in Procs :
        ( /\ procs[p].op = "delete" /\ procs[p].cascade
          /\ procs[p].pc = "done" /\ procs[p].result = "NotFound" )
        => (procs[p].current_id = procs[p].id /\ procs[p].id \notin DOMAIN sections)

\* C21: during an update that changes the path of S, a section below S has its
\* new full_path only once its parent (S included) has its new full_path: no
\* state has a descendant of S with a rewritten path under a parent whose
\* stored path is still the old one.
C21_PreOrderPropagation ==
    \A p \in Procs :
        (procs[p].op = "update" /\ procs[p].id \in DOMAIN last.before) =>
            \A c \in (Subtree(last.before, procs[p].id) \ {procs[p].id}) \cap DOMAIN sections :
                LET parent_id == last.before[c].parent_id
                IN  sections[c].full_path # last.before[c].full_path
                        => sections[parent_id].full_path # last.before[parent_id].full_path

\* A cascade delete is running or has returned.
CascadeOf(p) == procs[p].op = "delete" /\ procs[p].cascade

ReparentDone(p) ==
    /\ procs[p].op = "update" /\ procs[p].pc = "done"
    /\ procs[p].id \in DOMAIN last.before
    /\ procs[p].parent_id # NoneId

\* The ids the walk up the parent_id links from current_id passes, the id of
\* a missing record that ends it included.
RECURSIVE UpChain(_, _, _)
UpChain(st, current_id, visited) ==
    IF ~Truthy(current_id) \/ current_id \in visited THEN visited
    ELSE IF current_id \notin DOMAIN st THEN visited \cup {current_id}
    ELSE UpChain(st, st[current_id].parent_id, visited \cup {current_id})

\* C24: on any store, its parent links cyclic or dangling included, the cycle
\* check of an update ends; when the walk up from the proposed parent comes
\* back to a section it has visited the update fails with InvalidOperation and
\* the store is as before; when the walk ends at None or at a missing record
\* without meeting the section, the update does not fail with InvalidOperation.
C24_CycleCheckTotal ==
    /\ [](\A p \in Procs :
            ReparentDone(p) =>
                /\ ~ChainEnds(last.before, procs[p].parent_id, {}) =>
                      (procs[p].result = "InvalidOperation" /\ sections = last.before)
                /\ ( /\ ChainEnds(last.before, procs[p].parent_id, {})
                     /\ procs[p].id \notin UpChain(last.before, procs[p].parent_id, {}) )
                      => procs[p].result # "InvalidOperation")
    /\ \A p \in Procs : (procs[p].pc = "u_cycle") ~> (procs[p].pc # "u_cycle")

\* C24 witness: the walk went round a cycle that does not hold the section
\* being updated, and the update was refused.
C24_Witness ==
    \E p \in Procs :
        /\ ReparentDone(p)
        /\ procs[p].result = "InvalidOperation"
        /\ ~ChainEnds(last.before, procs[p].parent_id, {})
        /\ procs[p].id \notin procs[p].visited
        /\ Cardinality(procs[p].visited) > 1

\* C27: in a store that create, update and delete calls left, interleaved
\* ones included, the breadcrumbs walk of a get ends and the get returns.
C27_BreadcrumbWalkEnds ==
    \A p \in Procs :
        (procs[p].op \in {"get", "get_by_path"} /\ procs[p].pc = "g_crumb")
            ~> (procs[p].pc = "done")
====
